---- MODULE Spec2Model ----
(***************************************************************************)
(* A model of the configuration module (src/src/config.ts) and of the MCP  *)
(* logging module (src/src/mcpLogger.ts) of ace-tool.                      *)
(*                                                                         *)
(* JavaScript strings are TLA+ strings; Len, \o and SubSeq act on them     *)
(* character by character.  An optional value (a property that may be      *)
(* undefined) is a sequence of length 0 (undefined) or 1 (the value).      *)
(***************************************************************************)
EXTENDS Integers, Sequences, FiniteSets, TLC

\* ------------------------------------------------------------------ bounds

\* getUploadStrategy is applied to every integer of -MaxBlobCount..MaxBlobCount.
MaxBlobCount == 2100
\* process.argv.slice(2) holds at most MaxArgs tokens.
MaxArgs == 4
\* At most MaxConfigs Config objects are created by initConfig in one run.
MaxConfigs == 2
\* At most MaxSends sendMcpLog calls are made in one run.
MaxSends == 2

\* --------------------------------------------------------- state variables

VARIABLES
    blobCount,     \* the blob count the caller passes to getUploadStrategy
    strategy,      \* the value getUploadStrategy returned for it
    argv,          \* process.argv.slice(2)
    heap,          \* the Config objects created so far; a reference is an index
    config,        \* the module variable `config`: Null or a reference
    args,          \* the local `args` of the last initConfig call
    ret,           \* the outcome of the last initConfig / getConfig call
    initOk,        \* history: some initConfig call has returned normally
    lastCreated,   \* history: the reference the last successful initConfig returned
    got,           \* history: the references getConfig has returned
    mcpServer,     \* the module variable `mcpServer`: NoHost or a host
    promises,      \* the promises sendLoggingMessage has returned, in call order
    unhandled,     \* the promises whose rejection no handler took
    sent,          \* history: the sendMcpLog calls made, in call order
    lastBound      \* history: the argument of the last initMcpLogger call

strategyVars == <<blobCount, strategy>>
configVars == <<argv, heap, config, args, ret, initOk, lastCreated, got>>
loggerVars == <<mcpServer, promises, unhandled, sent, lastBound>>
vars == <<strategyVars, configVars, loggerVars>>

\* ------------------------------------------------------- getUploadStrategy

BlobCounts == (0 - MaxBlobCount)..MaxBlobCount

NoStrategy == [batchSize |-> 0, concurrency |-> 0, timeout |-> 0, scaleName |-> ""]

\* (mutant) the first threshold compared with <= instead of <.
getUploadStrategyLe(n) ==
    IF n <= 100
    THEN [batchSize |-> 10, concurrency |-> 1, timeout |-> 30000, scaleName |-> "small"]
    ELSE IF n < 500
    THEN [batchSize |-> 30, concurrency |-> 2, timeout |-> 45000, scaleName |-> "medium"]
    ELSE IF n < 2000
    THEN [batchSize |-> 50, concurrency |-> 3, timeout |-> 60000, scaleName |-> "large"]
    ELSE [batchSize |-> 70, concurrency |-> 4, timeout |-> 90000, scaleName |-> "extra-large"]

\* The scale names are the source's labels in English (the source's are
\* Chinese: small, medium, large, extra-large).
getUploadStrategy(n) ==
    IF n < 100
    THEN [batchSize |-> 10, concurrency |-> 1, timeout |-> 30000, scaleName |-> "small"]
    ELSE IF n < 500
    THEN [batchSize |-> 30, concurrency |-> 2, timeout |-> 45000, scaleName |-> "medium"]
    ELSE IF n < 2000
    THEN [batchSize |-> 50, concurrency |-> 3, timeout |-> 60000, scaleName |-> "large"]
    ELSE [batchSize |-> 70, concurrency |-> 4, timeout |-> 90000, scaleName |-> "extra-large"]

\* One call getUploadStrategy(blobCount).
GetUploadStrategy ==
    /\ strategy' = getUploadStrategy(blobCount)
    /\ UNCHANGED <<blobCount, configVars, loggerVars>>

\* ------------------------------------------------------------------ config

Null == 0
Undefined == <<>>
Some(v) == <<v>>

BaseUrlFlag == "--base-url"
TokenFlag == "--token"
EnableLogFlag == "--enable-log"

\* The tokens the argument lists are built from: the three flags, and values
\* that exercise every branch of the base URL normalisation.
Tokens ==
    { BaseUrlFlag, TokenFlag, EnableLogFlag,
      "", "example.com", "example.com//", "https://example.com/",
      "http://example.com", "https://", "/" }

ArgLists == UNION { [1..k -> Tokens] : k \in 0..MaxArgs }

DEFAULT_TEXT_EXTENSIONS ==
    { ".py", ".js", ".ts", ".jsx", ".tsx",
      ".java", ".go", ".rs", ".cpp", ".c",
      ".h", ".hpp", ".cs", ".rb", ".php",
      ".swift", ".kt", ".scala", ".clj",
      ".md", ".txt", ".json", ".yaml", ".yml",
      ".toml", ".xml", ".ini", ".conf",
      ".html", ".css", ".scss", ".sass", ".less",
      ".sql", ".sh", ".bash", ".ps1", ".bat",
      ".vue", ".svelte" }

DEFAULT_EXCLUDE_PATTERNS ==
    << ".venv", "venv", ".env", "env", "node_modules",
       ".git", ".svn", ".hg",
       "__pycache__", ".pytest_cache", ".mypy_cache",
       ".tox", ".eggs", "*.egg-info",
       "dist", "build", "target", "out",
       ".idea", ".vscode", ".vs",
       ".DS_Store", "Thumbs.db",
       "*.pyc", "*.pyo", "*.pyd", "*.so", "*.dll",
       ".ace-tool" >>

\* String.prototype.startsWith(p).
startsWith(s, p) == Len(s) >= Len(p) /\ SubSeq(s, 1, Len(p)) = p

\* (mutant) s.replace(/\/+$/, ''): every trailing "/" removed.
RECURSIVE stripAllTrailingSlashes(_)
stripAllTrailingSlashes(s) ==
    IF Len(s) > 0 /\ SubSeq(s, Len(s), Len(s)) = "/"
    THEN stripAllTrailingSlashes(SubSeq(s, 1, Len(s) - 1))
    ELSE s

\* s.replace(/\/$/, ''): the pattern matches one "/" at the end of the input.
stripTrailingSlash(s) ==
    IF Len(s) > 0 /\ SubSeq(s, Len(s), Len(s)) = "/"
    THEN SubSeq(s, 1, Len(s) - 1)
    ELSE s

\* !x for an optional string: undefined and the empty string are falsy.
falsy(x) == x = Undefined \/ x[1] = ""

\* (mutant) the loop without the i++ that skips a consumed value.
RECURSIVE parseLoopNoSkip(_, _, _)
parseLoopNoSkip(a, i, result) ==
    IF i > Len(a) THEN result
    ELSE IF a[i] = BaseUrlFlag /\ i + 1 <= Len(a)
    THEN parseLoopNoSkip(a, i + 1, [result EXCEPT !.baseUrl = Some(a[i + 1])])
    ELSE IF a[i] = TokenFlag /\ i + 1 <= Len(a)
    THEN parseLoopNoSkip(a, i + 1, [result EXCEPT !.token = Some(a[i + 1])])
    ELSE IF a[i] = EnableLogFlag
    THEN parseLoopNoSkip(a, i + 1, [result EXCEPT !.enableLog = Some(TRUE)])
    ELSE parseLoopNoSkip(a, i + 1, result)

\* The for loop of parseArgs from index i (1-based) with the result so far.
RECURSIVE parseLoop(_, _, _)
parseLoop(a, i, result) ==
    IF i > Len(a) THEN result
    ELSE IF a[i] = BaseUrlFlag /\ i + 1 <= Len(a)
    THEN parseLoop(a, i + 2, [result EXCEPT !.baseUrl = Some(a[i + 1])])
    ELSE IF a[i] = TokenFlag /\ i + 1 <= Len(a)
    THEN parseLoop(a, i + 2, [result EXCEPT !.token = Some(a[i + 1])])
    ELSE IF a[i] = EnableLogFlag
    THEN parseLoop(a, i + 1, [result EXCEPT !.enableLog = Some(TRUE)])
    ELSE parseLoop(a, i + 1, result)

NoArgs == [baseUrl |-> Undefined, token |-> Undefined, enableLog |-> Undefined]

parseArgs(a) == parseLoop(a, 1, NoArgs)

\* The base URL initConfig stores for the value v of --base-url.
normalizeBaseUrl(v) ==
    LET baseUrl == IF ~startsWith(v, "http://") /\ ~startsWith(v, "https://")
                   THEN "https://" \o v
                   ELSE v
    IN stripTrailingSlash(baseUrl)

\* The object literal initConfig assigns to `config`.
newConfig(p) ==
    [ baseUrl |-> normalizeBaseUrl(p.baseUrl[1]),
      token |-> p.token[1],
      batchSize |-> 10,
      maxLinesPerBlob |-> 800,
      textExtensions |-> DEFAULT_TEXT_EXTENSIONS,
      excludePatterns |-> DEFAULT_EXCLUDE_PATTERNS,
      enableLog |-> IF p.enableLog = Undefined THEN FALSE ELSE p.enableLog[1] ]

MissingBaseUrl == "Missing required argument: --base-url"
MissingToken == "Missing required argument: --token"
NotInitialized == "Config not initialized. Call initConfig() first."
NoError == ""

NoCall == [op |-> "none", error |-> NoError, value |-> Null]

\* The error initConfig throws for the parsed arguments p, NoError if none.
initConfigError(p) ==
    IF falsy(p.baseUrl) THEN MissingBaseUrl
    ELSE IF falsy(p.token) THEN MissingToken
    ELSE NoError

\* (mutant) initConfig that stores a Config before it checks the arguments.
initConfigStoreFirst ==
    LET p == parseArgs(argv)
        e == initConfigError(p)
        c == [ baseUrl |-> IF falsy(p.baseUrl) THEN "" ELSE normalizeBaseUrl(p.baseUrl[1]),
               token |-> IF falsy(p.token) THEN "" ELSE p.token[1],
               batchSize |-> 10,
               maxLinesPerBlob |-> 800,
               textExtensions |-> DEFAULT_TEXT_EXTENSIONS,
               excludePatterns |-> DEFAULT_EXCLUDE_PATTERNS,
               enableLog |-> p.enableLog # Undefined ]
    IN /\ args' = p
       /\ heap' = Append(heap, c)
       /\ config' = Len(heap) + 1
       /\ ret' = [op |-> "initConfig", error |-> e,
                  value |-> IF e = NoError THEN Len(heap) + 1 ELSE Null]

\* (mutant) initConfig that keeps a Config already stored (config ??= ...).
initConfigKeepFirst ==
    LET p == parseArgs(argv)
        e == initConfigError(p)
    IN /\ args' = p
       /\ IF e # NoError
          THEN /\ ret' = [op |-> "initConfig", error |-> e, value |-> Null]
               /\ UNCHANGED <<heap, config>>
          ELSE IF config # Null
          THEN /\ ret' = [op |-> "initConfig", error |-> NoError, value |-> config]
               /\ UNCHANGED <<heap, config>>
          ELSE /\ heap' = Append(heap, newConfig(p))
               /\ config' = Len(heap) + 1
               /\ ret' = [op |-> "initConfig", error |-> NoError, value |-> Len(heap) + 1]

\* The body of initConfig(): it parses, throws on a missing argument, and
\* otherwise creates a Config, stores it in `config` and returns it.
initConfig ==
    LET p == parseArgs(argv)
        e == initConfigError(p)
    IN /\ args' = p
       /\ IF e # NoError
          THEN /\ ret' = [op |-> "initConfig", error |-> e, value |-> Null]
               /\ UNCHANGED <<heap, config>>
          ELSE /\ heap' = Append(heap, newConfig(p))
               /\ config' = Len(heap) + 1
               /\ ret' = [op |-> "initConfig", error |-> NoError, value |-> Len(heap) + 1]

\* (mutant) getConfig without the check of `config`.
getConfigNoCheck ==
    ret' = [op |-> "getConfig", error |-> NoError, value |-> config]

\* The body of getConfig().
getConfig ==
    IF config = Null
    THEN ret' = [op |-> "getConfig", error |-> NotInitialized, value |-> Null]
    ELSE ret' = [op |-> "getConfig", error |-> NoError, value |-> config]

\* One call initConfig(), with the history of the calls.
InitConfig ==
    /\ Len(heap) < MaxConfigs
    /\ initConfig
    /\ initOk' = (initOk \/ ret'.error = NoError)
    /\ lastCreated' = IF ret'.error = NoError THEN ret'.value ELSE lastCreated
    /\ UNCHANGED <<argv, got, strategyVars, loggerVars>>

\* One call getConfig(), with the history of the calls.
GetConfig ==
    /\ getConfig
    /\ got' = IF ret'.error = NoError THEN got \cup {ret'.value} ELSE got
    /\ UNCHANGED <<argv, heap, config, args, initOk, lastCreated, strategyVars, loggerVars>>

\* --------------------------------------------------------------- mcpLogger

NoHost == "null"
Hosts == {"server1", "server2"}
LogLevels == {"debug", "info", "warning", "error"}
Messages == {"hello", "bye"}

\* (mutant) initMcpLogger that binds only while no host is bound.
initMcpLoggerOnce(server) ==
    mcpServer' = IF mcpServer = NoHost THEN server ELSE mcpServer

\* The body of initMcpLogger(server).
initMcpLogger(server) ==
    mcpServer' = server

\* (mutant) sendMcpLog without the check of `mcpServer`: the method call on
\* null throws a TypeError to the caller.
sendMcpLogNoCheck(level, message, call) ==
    IF mcpServer = NoHost
    THEN /\ promises' = promises
         /\ sent' = Append(sent, [level |-> level, message |-> message,
                                  boundTo |-> lastBound, threw |-> TRUE])
    ELSE /\ promises' = Append(promises,
                 [call |-> call, host |-> mcpServer, level |-> level, data |-> message,
                  catch |-> TRUE, state |-> "pending"])
         /\ sent' = Append(sent, [level |-> level, message |-> message,
                                  boundTo |-> lastBound, threw |-> FALSE])

\* (mutant) sendMcpLog without the .catch on the promise.
sendMcpLogNoCatch(level, message, call) ==
    /\ promises' =
          IF mcpServer = NoHost THEN promises
          ELSE Append(promises,
                 [call |-> call, host |-> mcpServer, level |-> level, data |-> message,
                  catch |-> FALSE, state |-> "pending"])
    /\ sent' = Append(sent, [level |-> level, message |-> message,
                             boundTo |-> lastBound, threw |-> FALSE])

\* The body of sendMcpLog(level, message), the call-th call: it returns at
\* once when no host is bound; otherwise it calls the host's
\* sendLoggingMessage once and attaches a catch handler to the promise the
\* call returns.  sendLoggingMessage is an async method: a failure while it
\* issues the message rejects the promise, it does not throw.
sendMcpLog(level, message, call) ==
    /\ promises' =
          IF mcpServer = NoHost THEN promises
          ELSE Append(promises,
                 [call |-> call, host |-> mcpServer, level |-> level, data |-> message,
                  catch |-> TRUE, state |-> "pending"])
    /\ sent' = Append(sent, [level |-> level, message |-> message,
                             boundTo |-> lastBound, threw |-> FALSE])

\* The settling of promise i: fulfilled, or rejected at once (the host was
\* not connected when the message was issued) or later (a transport error,
\* a rejected message).  The catch handler takes a rejection and returns
\* nothing; a rejection with no handler is an unhandled rejection.
settle(i, outcome) ==
    /\ promises' = [promises EXCEPT ![i].state = outcome]
    /\ unhandled' =
          IF outcome # "fulfilled" /\ ~promises[i].catch
          THEN unhandled \cup {i}
          ELSE unhandled

\* One call initMcpLogger(server).
InitMcpLogger ==
    \E server \in Hosts :
        /\ initMcpLogger(server)
        /\ lastBound' = server
        /\ UNCHANGED <<promises, unhandled, sent, strategyVars, configVars>>

\* One call sendMcpLog(level, message).
SendMcpLog ==
    /\ Len(sent) < MaxSends
    /\ \E level \in LogLevels, message \in Messages :
          sendMcpLog(level, message, Len(sent) + 1)
    /\ UNCHANGED <<mcpServer, unhandled, lastBound, strategyVars, configVars>>

\* The host settles one pending promise.
Settle ==
    \E i \in 1..Len(promises) :
        /\ promises[i].state = "pending"
        /\ \E outcome \in {"fulfilled", "rejectedAtIssue", "rejectedLater"} :
              settle(i, outcome)
        /\ UNCHANGED <<mcpServer, sent, lastBound, strategyVars, configVars>>

\* ------------------------------------------------------------------ claims

\* What the claims say of an argument list, stated without the loop: position
\* i is scanned unless the position before it is a scanned value flag, which
\* then consumes it.
IsValueFlag(t) == t = BaseUrlFlag \/ t = TokenFlag

RECURSIVE ClaimScanned(_, _)
ClaimScanned(a, i) ==
    i = 1 \/ ~(ClaimScanned(a, i - 1) /\ IsValueFlag(a[i - 1]))

\* The positions where `flag` is given with a following value.
ClaimGiven(a, flag) ==
    { i \in 1..(Len(a) - 1) : a[i] = flag /\ ClaimScanned(a, i) }

\* The value of `flag`: the token after its last occurrence, if any.
ClaimValue(a, flag) ==
    IF ClaimGiven(a, flag) = {} THEN Undefined
    ELSE Some(a[(CHOOSE i \in ClaimGiven(a, flag) :
                    \A j \in ClaimGiven(a, flag) : j <= i) + 1])

\* `flag` (with a following value) is absent; an empty token is no value.
ClaimAbsent(a, flag) ==
    ClaimValue(a, flag) = Undefined \/ ClaimValue(a, flag) = Some("")

ClaimHasPrefix(s, p) == \E k \in 1..(Len(s) + 1) : s = p \o SubSeq(s, k, Len(s))
ClaimEndsWithSlash(s) == \E k \in 0..Len(s) : k + 1 = Len(s) /\ s = SubSeq(s, 1, k) \o "/"

\* C1: for every integer n, getUploadStrategy(n) returns the (batchSize,
\* concurrency, timeout) of the table row whose interval contains n.
C1_StrategyTable ==
    strategy # NoStrategy =>
        LET n == blobCount
            t == <<strategy.batchSize, strategy.concurrency, strategy.timeout>>
        IN /\ (n < 100 => t = <<10, 1, 30000>>)
           /\ (100 <= n /\ n < 500 => t = <<30, 2, 45000>>)
           /\ (500 <= n /\ n < 2000 => t = <<50, 3, 60000>>)
           /\ (n >= 2000 => t = <<70, 4, 90000>>)
           /\ (n \in {99, 499, 1999} =>
                 t \in {<<10, 1, 30000>>, <<30, 2, 45000>>, <<50, 3, 60000>>})
           /\ (n \in {100, 500, 2000} =>
                 t \in {<<30, 2, 45000>>, <<50, 3, 60000>>, <<70, 4, 90000>>})

\* A call at a boundary, and the row it landed in is the upper one.
C1_Witness == blobCount = 100 /\ strategy.concurrency = 2

\* C2: after a successful initConfig the stored baseUrl is never empty, never
\* ends with "/", and starts with "http://" or "https://".
C2_BaseUrlInvariant ==
    config # Null =>
        LET b == heap[config].baseUrl
        IN /\ b # ""
           /\ ~ClaimEndsWithSlash(b)
           /\ (ClaimHasPrefix(b, "http://") \/ ClaimHasPrefix(b, "https://"))

\* C3: when --base-url or --token (with a following value) is absent,
\* initConfig fails with the missing-argument error naming the missing flag
\* (--base-url first when both are missing), and the failing call writes
\* neither the config slot nor a Config.
C3_MissingArgumentFails ==
    [][ InitConfig /\ (ClaimAbsent(argv, BaseUrlFlag) \/ ClaimAbsent(argv, TokenFlag)) =>
          /\ ret'.error = IF ClaimAbsent(argv, BaseUrlFlag)
                          THEN MissingBaseUrl ELSE MissingToken
          /\ ret'.value = Null
          /\ config' = config
          /\ heap' = heap ]_vars

\* initConfig failed for a missing --token, and the getConfig after it fails.
C3_Witness ==
    /\ ClaimAbsent(argv, TokenFlag)
    /\ ~ClaimAbsent(argv, BaseUrlFlag)
    /\ args.baseUrl # Undefined
    /\ ret.op = "getConfig" /\ ret.error = NotInitialized

\* C4: getConfig fails with the not-initialized error exactly when no
\* initConfig call has succeeded before it; after one has, it never fails.
C4_GetConfigAfterInit ==
    ret.op = "getConfig" =>
        /\ (~initOk => ret.error = NotInitialized /\ ret.value = Null)
        /\ (initOk => ret.error = NoError /\ ret.value # Null)

\* A getConfig that succeeded after an initConfig.
C4_Witness == ret.op = "getConfig" /\ initOk /\ ret.error = NoError

\* C5 (as stated): every getConfig call returns the same Config object,
\* whatever calls, further initConfig calls included, happen in between.
C5_SameConfigForever == Cardinality(got) <= 1

\* C5 (amended): getConfig returns the Config created by the most recent
\* successful initConfig; every successful initConfig creates a new object and
\* stores it, nothing else writes the slot, and no object's fields change.
C5_ConfigOfLastInit ==
    [][ /\ (GetConfig /\ initOk => ret'.error = NoError /\ ret'.value = lastCreated)
        /\ (InitConfig /\ ret'.error = NoError =>
               /\ ret'.value \notin 1..Len(heap)
               /\ config' = ret'.value)
        /\ (config' # config => InitConfig /\ ret'.error = NoError)
        /\ \A r \in 1..Len(heap) : heap'[r] = heap[r] ]_vars

\* getConfig returned the second Config, after having returned the first.
C5_Witness == ret.op = "getConfig" /\ ret.value = 2 /\ got = {1, 2}

\* C6: the stored baseUrl is norm(v) for the accepted value v: "https://" is
\* prepended when v starts with neither scheme, and then exactly one trailing
\* "/" is removed if there is one.
C6_BaseUrlNormalized ==
    ret.op = "initConfig" /\ ret.error = NoError =>
        LET v == ClaimValue(argv, BaseUrlFlag)[1]
            pre == IF ClaimHasPrefix(v, "http://") \/ ClaimHasPrefix(v, "https://")
                   THEN v ELSE "https://" \o v
            b == heap[ret.value].baseUrl
        IN /\ IF ClaimEndsWithSlash(pre) THEN b \o "/" = pre ELSE b = pre
           /\ (v = "example.com" => b = "https://example.com")
           /\ (v = "https://example.com/" => b = "https://example.com")

\* A value with two trailing slashes was accepted.
C6_Witness ==
    /\ ret.op = "initConfig" /\ ret.error = NoError
    /\ ClaimValue(argv, BaseUrlFlag) = Some("example.com//")

\* C10: a value flag followed by a token consumes it whatever its shape, the
\* consumed token is not read as a flag, and other tokens are skipped.
C10_ValueFlagConsumesNext ==
    ret.op = "initConfig" =>
        /\ args.baseUrl = ClaimValue(argv, BaseUrlFlag)
        /\ args.token = ClaimValue(argv, TokenFlag)
        /\ args.enableLog \in {Undefined, Some(TRUE)}
        /\ (args.enableLog = Some(TRUE) <=>
               \E i \in 1..Len(argv) : argv[i] = EnableLogFlag /\ ClaimScanned(argv, i))
        /\ (argv = <<BaseUrlFlag, "example.com", TokenFlag, EnableLogFlag>> =>
               /\ ret.error = NoError
               /\ heap[ret.value].token = "--enable-log"
               /\ heap[ret.value].enableLog = FALSE)
        /\ ((\A i \in 1..Len(argv) : ~IsValueFlag(argv[i]) /\ argv[i] # EnableLogFlag) =>
               args = NoArgs)

\* The claim's example list was parsed.
C10_Witness ==
    /\ ret.op = "initConfig"
    /\ argv = <<BaseUrlFlag, "example.com", TokenFlag, EnableLogFlag>>

\* The delivery attempts (promises) the k-th sendMcpLog call issued.
ClaimAttemptsOf(k) == { i \in 1..Len(promises) : promises[i].call = k }

\* C7: a sendMcpLog made while no host was ever bound returns without error
\* and issues no delivery attempt, then or after a host is bound.
C7_UnboundSendIsNoOp ==
    \A k \in 1..Len(sent) :
        sent[k].boundTo = NoHost =>
            /\ ~sent[k].threw
            /\ ClaimAttemptsOf(k) = {}

\* A message was sent while unbound, a host was bound after it, and a later
\* message was delivered to that host.
C7_Witness ==
    /\ mcpServer # NoHost
    /\ \E k \in 1..Len(sent) : sent[k].boundTo = NoHost
    /\ \E i \in 1..Len(promises) : promises[i].state = "fulfilled"

\* C8: a sendMcpLog made while a host is bound issues exactly one delivery
\* attempt, never throws, and a failed delivery is neither surfaced (no
\* unhandled rejection) nor retried.
C8_DeliveryFailureDiscarded ==
    /\ unhandled = {}
    /\ \A k \in 1..Len(sent) :
          sent[k].boundTo # NoHost =>
              /\ ~sent[k].threw
              /\ Cardinality(ClaimAttemptsOf(k)) = 1

\* One delivery failed while it was issued and another failed later.
C8_Witness ==
    /\ \E i \in 1..Len(promises) : promises[i].state = "rejectedAtIssue"
    /\ \E i \in 1..Len(promises) : promises[i].state = "rejectedLater"

\* C9: once bound the channel is never unbound, initMcpLogger always replaces
\* the bound host, and every delivery attempt goes to the host of the most
\* recent initMcpLogger call before its sendMcpLog.
C9_BoundToLatestHost ==
    [][ /\ (mcpServer # NoHost => mcpServer' # NoHost)
        /\ mcpServer' = lastBound'
        /\ \A i \in 1..Len(promises') :
              promises'[i].host = sent'[promises'[i].call].boundTo ]_vars

\* A message went to server2 after an earlier one had gone to server1.
C9_Witness ==
    \E i, j \in 1..Len(promises) :
        i < j /\ promises[i].host = "server1" /\ promises[j].host = "server2"

\* ---------------------------------------------------------- specifications

InitStrategyVars == blobCount = 0 /\ strategy = NoStrategy

InitConfigVars ==
    /\ heap = <<>>
    /\ config = Null
    /\ args = NoArgs
    /\ ret = NoCall
    /\ initOk = FALSE
    /\ lastCreated = Null
    /\ got = {}

InitLoggerVars ==
    /\ mcpServer = NoHost
    /\ promises = <<>>
    /\ unhandled = {}
    /\ sent = <<>>
    /\ lastBound = NoHost

StrategyInit ==
    /\ blobCount \in BlobCounts
    /\ strategy = NoStrategy
    /\ InitConfigVars
    /\ argv = <<>>
    /\ InitLoggerVars
StrategyNext == GetUploadStrategy
StrategySpec == StrategyInit /\ [][StrategyNext]_vars

ConfigInit == InitStrategyVars /\ InitConfigVars /\ argv \in ArgLists /\ InitLoggerVars
ConfigNext == InitConfig \/ GetConfig
ConfigSpec == ConfigInit /\ [][ConfigNext]_vars

LoggerInit == InitStrategyVars /\ InitConfigVars /\ argv = <<>> /\ InitLoggerVars
LoggerNext == InitMcpLogger \/ SendMcpLog \/ Settle
LoggerSpec == LoggerInit /\ [][LoggerNext]_vars

====
